---- MODULE Spec2Model ----
(***************************************************************************)
(* Model of the rgx widget core: Pod (src/ui/widgets/pod.rs), ZStack       *)
(* (src/ui/widgets/zstack.rs), Context (src/ui/context.rs) and the widget  *)
(* protocol (src/ui/widgets/widget.rs).                                    *)
(*                                                                         *)
(* The widget tree is                                                      *)
(*     Pod 0  (the root Pod of application.rs:130)                         *)
(*       ZStack                 children Pods 1 .. NumChildren             *)
(*         Pod 1 .. NumChildren-1     leaf widgets                         *)
(*         Pod NumChildren            a nested ZStack (pushed last, or      *)
(*                                    first: see Scenes)                   *)
(*           Pod NumChildren+1        leaf widget                          *)
(* A dispatch enters either at Pod 0 (Application::launch) or directly at  *)
(* the ZStack inside it (the Environment of ui/tests.rs).                  *)
(***************************************************************************)
EXTENDS Integers, Sequences, FiniteSets, TLC

\* ---------------------------------------------------------------- bounds
NumChildren == 2
GridW == 3
MaxDepth == 2
MaxQueue == 3
MaxFlush == 2
NumThreads == 3
MaxIds == 4

\* ------------------------------------------------------------- the tree
RootPod == 0
Pods == 0 .. (NumChildren + 1)
ZStackPods == {RootPod, NumChildren}
Leaves == Pods \ ZStackPods

\* ------------------------------------------------------------- geometry
\* the window is GridW columns wide and two rows high
Rows == {0, 1}
Points == (0 .. GridW - 1) \X Rows
ZERO == <<0, 0>>
WinSize == <<GridW, Cardinality(Rows)>>

Sub(p, o) == <<p[1] - o[1], p[2] - o[2]>>
Add(p, o) == <<p[1] + o[1], p[2] + o[2]>>

\* Rect::origin(size).contains(point)
RectContains(sz, q) == 0 <= q[1] /\ q[1] < sz[1] /\ 0 <= q[2] /\ q[2] < sz[2]

\* --------------------------------------------------------------- events
Buttons == {"Left", "Right"}
OtherKinds == {"MouseScroll", "Resized", "Focus", "KeyDown", "KeyUp",
               "CharacterReceived", "Paste", "Tick", "Frame"}
NoBtn == "-"
NoPt == <<-1, -1>>

Ev(k, b, p) == [kind |-> k, btn |-> b, pt |-> p]
MouseMove(p) == Ev("MouseMove", NoBtn, p)
MouseDown(b) == Ev("MouseDown", b, NoPt)
MouseUp(b) == Ev("MouseUp", b, NoPt)
MouseEnter == Ev("MouseEnter", NoBtn, NoPt)
MouseExit == Ev("MouseExit", NoBtn, NoPt)
Other(k) == Ev(k, NoBtn, NoPt)

Continue == "Continue"
Break == "Break"

VARIABLES
    hot,      \* Pod.hot, per Pod
    active,   \* Pod.active, per Pod
    size,     \* Pod.size, per Pod
    cursor,   \* cursor of the Context the driver passes to the root
    press,    \* per Pod: the button of the MouseDown that made it active
    log,      \* the handlers called during the current call on the root
    last,     \* the current call on the root, with the flags it started from
    click,    \* how far the last calls got in hover, press, release (0 .. 3)
    scene,    \* how the tree was built (fixed at construction)
    chain,    \* a root Context and the Contexts derived from it, level by level
    offs,     \* the offsets of the Pods that derived them
    events,   \* the orchestrator's queue of WidgetEvents (Vec events)
    resized,  \* a resize is pending
    minimized,\* the window is minimized
    arrivals, \* the events not yet dispatched, as their notifications arrived
    frame,    \* the calls the root received in the current loop iteration
    pc,       \* where the loop iteration stands
    inbox,    \* the notifications flushed since the last frame was presented
    failed,   \* the renderer has failed to draw a frame
    gfx,      \* Graphics.cursor and .cursors, and the cursor the window holds
    resizes,  \* the calls of renderer.handle_resized in the current iteration
    next,     \* the static NEXT of Id::next
    taken,    \* per thread: the id Pod::new has drawn for the Pod it is building
    made      \* the ids of the Pods that have been built, in the order built

\* the Contexts derived along a chain of nested Pods
derived == <<chain, offs>>

\* the state of the orchestrator's loop
loop == <<events, resized, minimized, arrivals, frame, pc, inbox, failed, gfx, resizes>>

\* the widget identifiers handed out
ident == <<next, taken, made>>

vars == <<hot, active, size, press, cursor, log, last, click, scene, chain, offs,
          events, resized, minimized, arrivals, frame, pc, inbox, failed, gfx,
          resizes, next, taken, made>>

\* ------------------------------------------------------- tree building
\* scene.entry  : "pod" the driver calls Pod 0, "zstack" its ZStack directly
\* scene.leaves : "region" leaves fill the parent and hit-test a region of it
\*                "sized"  leaves have a fixed size and the default contains
\* scene.offset : Pod 0's offset, as set by whoever owns that Pod
\* scene.top    : "nested" the nested ZStack is pushed last on the root stack
\*                "leaf"   it is pushed first, the leaves lie above it
Scenes ==
    { [entry |-> en, leaves |-> k, offset |-> ZERO, top |-> "nested"] :
        en \in {"zstack", "pod"}, k \in {"region", "sized"} }
    \cup
    { [entry |-> "pod", leaves |-> "region", offset |-> <<1, 0>>, top |-> "nested"],
      [entry |-> "zstack", leaves |-> "sized", offset |-> ZERO, top |-> "leaf"] }

\* ZStack.widgets: the children in child order (index 1 is painted first).
Widgets(z) ==
    IF z = RootPod
    THEN IF scene.top = "nested"
         THEN [i \in 1 .. NumChildren |-> i]
         ELSE [i \in 1 .. NumChildren |-> IF i = 1 THEN NumChildren ELSE i - 1]
    ELSE <<NumChildren + 1>>

Children(z) == {Widgets(z)[i] : i \in 1 .. Len(Widgets(z))}

\* the Pods whose widget holds, directly or not, Pod p
Ancestors(p) == {z \in ZStackPods : z # p /\ (z = RootPod \/ p \in Children(z))}

\* Pod.offset: Pod::new sets ZERO; ZStack never moves its children.
Offset(p) == IF p = RootPod THEN scene.offset ELSE ZERO

\* the inner widget's layout(parent) of a leaf: the default returns the
\* parent size; a sized leaf returns its own size (leaf p of the root stack is
\* p columns narrower than the window, the nested leaf one row lower)
LeafLayout(p, parent) ==
    IF scene.leaves = "region" THEN parent
    ELSE IF p < NumChildren THEN <<GridW - p, parent[2]>> ELSE <<parent[1], 1>>

\* the inner widget's contains(point) of a leaf: the default is true; a
\* region leaf of the root stack holds the columns from p on, the nested leaf
\* the rows from 1 on
LeafContains(p, q) ==
    IF scene.leaves = "region"
    THEN IF p < NumChildren THEN q[1] >= p ELSE q[2] >= 1
    ELSE TRUE

\* ------------------------------------------------------------- hit test
RECURSIVE PodContains(_, _)

\* slip: all() in place of any()
AllContain(ws, q) == \A i \in 1 .. Len(ws) : PodContains(ws[i], q)

\* self.widgets.iter().rev().any(|w| w.contains(point)), the widgets being ws
AnyContains(ws, q) == \E i \in 1 .. Len(ws) : PodContains(ws[i], q)

\* ZStack::contains: any child, scanned in reverse, contains the point
ZStackContains(z, q) == AnyContains(Widgets(z), q)

\* the inner widget's contains
WidgetContains(p, q) ==
    IF p \in ZStackPods THEN ZStackContains(p, q) ELSE LeafContains(p, q)

\* slip: the point is handed on as it is
PodContainsRaw(p, q) == WidgetContains(p, q)

\* Pod::contains: self.widget.contains(point - self.offset)
PodContains(p, q) == WidgetContains(p, Sub(q, Offset(p)))

\* -------------------------------------------------------------- context
\* Op applied to the value of v, which is computed once
With(v, Op(_)) == CHOOSE y \in {Op(x) : x \in {v}} : TRUE

\* Context::new(cursor, surfaces)
NewContext(c) == [transform |-> ZERO, cursor |-> c, hot |-> FALSE, active |-> FALSE]

\* slip: the offset replaces the transform instead of composing with it
CtxOffsetReplaces(ctx, o) ==
    With(ctx, LAMBDA c :
        [c EXCEPT !.transform = o, !.cursor = Sub(c.cursor, o)])

\* Context::offset
CtxOffset(ctx, o) ==
    With(ctx, LAMBDA c :
        [c EXCEPT !.transform = Add(c.transform, o), !.cursor = Sub(c.cursor, o)])

\* parent.offset(o).hot(h).active(a)
Derive(parent, o, h, a) == [CtxOffset(parent, o) EXCEPT !.hot = h, !.active = a]

\* slip: the flags of the parent's Context are passed on as they are
PodContextParentFlags(p, parent, s) == CtxOffset(parent, Offset(p))

\* Pod::context: parent.offset(self.offset).hot(self.hot).active(self.active)
PodContext(p, parent, s) == Derive(parent, Offset(p), s.hot[p], s.active[p])

\* Pod::bounds: Rect::origin(self.size)
PodBounds(p, q) == RectContains(size[p], q)

\* ---------------------------------------------------------------- event
\* One entry per call of an event handler, appended when the call returns:
\* at = "pod" for Pod::event, at = "widget" for the inner widget's event.
Entry(a, p, e, c, f) == [at |-> a, pod |-> p, ev |-> e, ctx |-> c, flow |-> f]

\* the result r of a handler, with the call recorded
Logged(r, a, p, e, c) ==
    [s |-> [r.s EXCEPT !.log = Append(@, Entry(a, p, e, c, r.flow))], flow |-> r.flow]

RECURSIVE PodEvent(_, _, _, _, _)
RECURSIVE ZStackScan(_, _, _, _, _, _)
RECURSIVE ZStackExit(_, _, _, _, _, _)

\* ZStack::event
ZStackEvent(z, e, ctx, s, B) ==
    With(ZStackScan(z, Len(Widgets(z)), e, ctx,
                    [s |-> s, flow |-> Continue, hot |-> -1], B),
         LAMBDA r :
            [s |-> IF r.hot # -1 THEN ZStackExit(z, 1, r.hot, ctx, r.s, B) ELSE r.s,
             flow |-> r.flow])

\* the event handler of a leaf: it returns Break when the leaf is in B, the
\* set drawn for this call
LeafEvent(p, s, B) == [s |-> s, flow |-> IF p \in B THEN Break ELSE Continue]

\* the event handler of Pod p's inner widget
WidgetEvent(p, e, ctx, s, B) ==
    With(IF p \in ZStackPods THEN ZStackEvent(p, e, ctx, s, B) ELSE LeafEvent(p, s, B),
         LAMBDA r : Logged(r, "widget", p, e, ctx))

Skip(s) == [s |-> s, flow |-> Continue]

\* slip: the MouseEnter arm tests the inner widget's hit region only
PodMouseEnterNoBounds(p, ctx, s, B) ==
    IF WidgetContains(p, ctx.cursor)
    THEN WidgetEvent(p, MouseEnter, ctx, [s EXCEPT !.hot[p] = TRUE], B)
    ELSE Skip(s)

\* slip: the MouseEnter arm also sets active
PodMouseEnterSetsActive(p, ctx, s, B) ==
    IF PodBounds(p, ctx.cursor) /\ WidgetContains(p, ctx.cursor)
    THEN WidgetEvent(p, MouseEnter, ctx,
                     [s EXCEPT !.hot[p] = TRUE, !.active[p] = TRUE], B)
    ELSE Skip(s)

\* Pod::event, MouseEnter arm
PodMouseEnter(p, ctx, s, B) ==
    IF PodBounds(p, ctx.cursor) /\ WidgetContains(p, ctx.cursor)
    THEN WidgetEvent(p, MouseEnter, ctx, [s EXCEPT !.hot[p] = TRUE], B)
    ELSE Skip(s)

\* slip: the MouseExit arm tests the cursor as the MouseEnter arm does
PodMouseExitRevalidated(p, ctx, s, B) ==
    IF s.hot[p] /\ ~(PodBounds(p, ctx.cursor) /\ WidgetContains(p, ctx.cursor))
    THEN WidgetEvent(p, MouseExit, ctx, [s EXCEPT !.hot[p] = FALSE], B)
    ELSE Skip(s)

\* Pod::event, MouseExit arm
PodMouseExit(p, ctx, s, B) ==
    IF s.hot[p]
    THEN WidgetEvent(p, MouseExit, ctx, [s EXCEPT !.hot[p] = FALSE], B)
    ELSE Skip(s)

\* slip: the MouseMove arm tests the point without untransforming it
PodMouseMoveRaw(p, e, ctx, s, B) ==
    LET q == e.pt
        contains == PodBounds(p, q) /\ WidgetContains(p, q)
    IN  IF contains
        THEN IF s.hot[p]
             THEN WidgetEvent(p, MouseMove(q), ctx, s, B)
             ELSE WidgetEvent(p, MouseEnter, ctx, [s EXCEPT !.hot[p] = TRUE], B)
        ELSE IF s.hot[p]
             THEN WidgetEvent(p, MouseExit, ctx, [s EXCEPT !.hot[p] = FALSE], B)
             ELSE Skip(s)

\* Pod::event, MouseMove arm
PodMouseMove(p, e, ctx, s, B) ==
    LET q == Sub(e.pt, Offset(p))
        contains == PodBounds(p, q) /\ WidgetContains(p, q)
    IN  IF contains
        THEN IF s.hot[p]
             THEN WidgetEvent(p, MouseMove(q), ctx, s, B)
             ELSE WidgetEvent(p, MouseEnter, ctx, [s EXCEPT !.hot[p] = TRUE], B)
        ELSE IF s.hot[p]
             THEN WidgetEvent(p, MouseExit, ctx, [s EXCEPT !.hot[p] = FALSE], B)
             ELSE Skip(s)

\* slip: the MouseDown arm forwards without testing hot
PodMouseDownAlways(p, e, ctx, s, B) ==
    WidgetEvent(p, e, ctx, [s EXCEPT !.active[p] = TRUE, !.press[p] = e.btn], B)

\* Pod::event, MouseDown arm
PodMouseDown(p, e, ctx, s, B) ==
    IF s.hot[p]
    THEN WidgetEvent(p, e, ctx, [s EXCEPT !.active[p] = TRUE, !.press[p] = e.btn], B)
    ELSE Skip(s)

\* slip: the MouseUp arm requires hot as well as active
PodMouseUpIfHot(p, e, ctx, s, B) ==
    IF s.active[p] /\ s.hot[p]
    THEN WidgetEvent(p, e, ctx, [s EXCEPT !.active[p] = FALSE, !.press[p] = NoBtn], B)
    ELSE Skip(s)

\* Pod::event, MouseUp arm
PodMouseUp(p, e, ctx, s, B) ==
    IF s.active[p]
    THEN WidgetEvent(p, e, ctx, [s EXCEPT !.active[p] = FALSE, !.press[p] = NoBtn], B)
    ELSE Skip(s)

\* slip: the catch-all arm forwards only while the Pod is hot
PodOtherIfHot(p, e, ctx, s, B) ==
    IF s.hot[p] THEN WidgetEvent(p, e, ctx, s, B) ELSE Skip(s)

\* Pod::event, the catch-all arm: every other event goes to the inner widget
PodOther(p, e, ctx, s, B) == WidgetEvent(p, e, ctx, s, B)

\* Pod::event, the match on the event
PodMatch(p, e, ctx, s, B) ==
    CASE e.kind = "MouseEnter" -> PodMouseEnter(p, ctx, s, B)
      [] e.kind = "MouseExit" -> PodMouseExit(p, ctx, s, B)
      [] e.kind = "MouseMove" -> PodMouseMove(p, e, ctx, s, B)
      [] e.kind = "MouseDown" -> PodMouseDown(p, e, ctx, s, B)
      [] e.kind = "MouseUp" -> PodMouseUp(p, e, ctx, s, B)
      [] OTHER -> PodOther(p, e, ctx, s, B)

\* Pod::event
PodEvent(p, e, parent, s, B) ==
    With(<<parent, s>>, LAMBDA a :
        With(PodMatch(p, e, PodContext(p, a[1], a[2]), a[2], B),
             LAMBDA r : Logged(r, "pod", p, e, a[1])))

\* slip: no break after the child that contains the point
ScanMoveNoBreak(z, i, e, ctx, acc, B) ==
    LET w == Widgets(z)[i] IN
    IF PodContains(w, e.pt)
    THEN With(PodEvent(w, e, ctx, acc.s, B),
              LAMBDA r : IF r.flow = Break
                         THEN [s |-> r.s, flow |-> r.flow, hot |-> w]
                         ELSE ZStackScan(z, i - 1, e, ctx,
                                         [s |-> r.s, flow |-> r.flow, hot |-> w], B))
    ELSE IF acc.flow = Break THEN acc
         ELSE ZStackScan(z, i - 1, e, ctx, acc, B)

\* slip: the loop does not test the flow the child returned
ScanOtherNoBreak(z, i, e, ctx, acc, B) ==
    With(PodEvent(Widgets(z)[i], e, ctx, acc.s, B),
         LAMBDA r :
            ZStackScan(z, i - 1, e, ctx,
                       [s |-> r.s, flow |-> r.flow, hot |-> acc.hot], B))

\* ZStack::event, one turn of the loop on child i for a MouseMove: the child
\* that contains the point is invoked and the loop ends
ScanMove(z, i, e, ctx, acc, B) ==
    LET w == Widgets(z)[i] IN
    IF PodContains(w, e.pt)
    THEN With(PodEvent(w, e, ctx, acc.s, B),
              LAMBDA r : [s |-> r.s, flow |-> r.flow, hot |-> w])
    ELSE IF acc.flow = Break THEN acc
         ELSE ZStackScan(z, i - 1, e, ctx, acc, B)

\* ZStack::event, one turn of the loop on child i for any other event: the
\* child is invoked and the loop ends when it returns Break
ScanOther(z, i, e, ctx, acc, B) ==
    With(PodEvent(Widgets(z)[i], e, ctx, acc.s, B),
         LAMBDA r :
            IF r.flow = Break
            THEN [s |-> r.s, flow |-> r.flow, hot |-> acc.hot]
            ELSE ZStackScan(z, i - 1, e, ctx,
                            [s |-> r.s, flow |-> r.flow, hot |-> acc.hot], B))

\* ZStack::event, the loop over self.widgets.iter_mut().rev(): child i and below
ZStackScan(z, i, e, ctx, acc, B) ==
    IF i = 0 THEN acc
    ELSE IF e.kind = "MouseMove"
         THEN ScanMove(z, i, e, ctx, acc, B)
         ELSE ScanOther(z, i, e, ctx, acc, B)

\* ZStack::event, the MouseExit sent to the hot children other than `id`
ZStackExit(z, i, id, ctx, s, B) ==
    IF i > Len(Widgets(z)) THEN s
    ELSE LET w == Widgets(z)[i] IN
         IF w # id /\ s.hot[w]
         THEN With(PodEvent(w, MouseExit, ctx, s, B),
                   LAMBDA r : ZStackExit(z, i + 1, id, ctx, r.s, B))
         ELSE ZStackExit(z, i + 1, id, ctx, s, B)

\* the tree's state at the start of a call on the root
State == [hot |-> hot, active |-> active, press |-> press, log |-> <<>>]

\* --------------------------------------------------------------- passes
PassKinds == {"update", "paint", "lifecycle", "frame"}

RECURSIVE PodPass(_, _, _, _)

\* slip: the children are visited in reverse, as in ZStack::event
RECURSIVE ZStackPassReverse(_, _, _, _, _)
ZStackPassReverse(z, i, k, ctx, lg) ==
    IF i > Len(Widgets(z)) THEN lg
    ELSE ZStackPassReverse(z, i + 1, k, ctx,
                           PodPass(Widgets(z)[Len(Widgets(z)) + 1 - i], k, ctx, lg))

\* ZStack::update / layout / paint / lifecycle / frame: every child, in
\* child order
RECURSIVE ZStackPass(_, _, _, _, _)
ZStackPass(z, i, k, ctx, lg) ==
    IF i > Len(Widgets(z)) THEN lg
    ELSE ZStackPass(z, i + 1, k, ctx, PodPass(Widgets(z)[i], k, ctx, lg))

\* the context a Pod hands to its inner widget in a pass: Pod::update derives
\* it with Pod::context, Pod::lifecycle passes the parent's on
PassContext(p, k, ctx) ==
    IF k = "update"
    THEN PodContext(p, ctx, State)
    ELSE ctx

\* Pod::update / paint / lifecycle / frame: delegate to the inner widget
PodPass(p, k, ctx, lg) ==
    LET c == PassContext(p, k, ctx)
        en == Entry("widget", p, Other(k), c, Continue)
    IN  IF p \in ZStackPods
        THEN ZStackPass(p, 1, k, c, Append(lg, en))
        ELSE Append(lg, en)

\* Pod::layout caches the size its inner widget returns; ZStack::layout lays
\* every child out with the parent size and returns the parent size
LayoutSize(p, parent) ==
    IF p \in ZStackPods THEN parent ELSE LeafLayout(p, parent)

\* --------------------------------------------------------------- cursor
CursorNames == {"cross", "hand"}
NoCursor == "none"

\* the inner widget's cursor() of a leaf: an Interactive returns the cursor
\* it was given, any other widget the default, None. The leaf of the root
\* stack was given "hand"; the nested leaf was given "cross" where the
\* leaves are regions and is not an Interactive where they are sized
LeafCursor(p) ==
    IF p < NumChildren THEN "hand"
    ELSE IF scene.leaves = "region" THEN "cross" ELSE NoCursor

RECURSIVE PodCursor(_, _)

\* slip: the topmost hot child decides, also when it declares no cursor
ZStackCursorTopHot(z, i, h) ==
    LET hotOnes == {j \in 1 .. i : h[Widgets(z)[j]]}
    IN  IF hotOnes = {} THEN NoCursor
        ELSE PodCursor(Widgets(z)[CHOOSE j \in hotOnes : \A k \in hotOnes : k <= j], h)

\* ZStack::cursor: the children from number i down, the flags being h
RECURSIVE ZStackCursor(_, _, _)
ZStackCursor(z, i, h) ==
    IF i = 0 THEN NoCursor
    ELSE IF h[Widgets(z)[i]] /\ PodCursor(Widgets(z)[i], h) # NoCursor
         THEN PodCursor(Widgets(z)[i], h)
         ELSE ZStackCursor(z, i - 1, h)

\* the inner widget's cursor()
WidgetCursor(p, h) ==
    IF p \in ZStackPods THEN ZStackCursor(p, Len(Widgets(p)), h) ELSE LeafCursor(p)

\* Pod::cursor: self.widget.cursor()
PodCursor(p, h) == WidgetCursor(p, h)

\* Graphics before the loop, the application having registered the cursors
\* named in R: no cursor displayed, every registered cursor in the table
\* (cursors[n] is the cursor object kept under the name n, if any), and the
\* window holding none
Registered(R) ==
    [cursor |-> NoCursor,
     cursors |-> [n \in CursorNames |-> IF n \in R THEN n ELSE NoCursor],
     window |-> NoCursor,
     names |-> R]

\* the same, every cursor a widget declares being registered
GraphicsInit == Registered(CursorNames)

\* ---------------------------------------------------------- the driver
\* Pod 0 exists when the driver wraps the root widget in a Pod
Entered(p) == p # RootPod \/ scene.entry = "pod"
Built == {p \in Pods : Entered(p)}

\* root.event(&event, &ctx, data) with ctx = Context::new(c, ..)
RootEvent(e, c, B) ==
    IF scene.entry = "pod"
    THEN PodEvent(RootPod, e, NewContext(c), State, B)
    ELSE WidgetEvent(RootPod, e, NewContext(c), State, B)

Call(op, e, f) == [op |-> op, ev |-> e, flow |-> f, hot |-> hot, active |-> active]

Idle == last.op = "idle"

\* every Pod that exists has been laid out
LaidOut == \A p \in Built : size[p] # ZERO

\* the calls of Environment::hover followed by Environment::click: a hover on
\* the laid out tree, then the press, then the release, nothing in between
ClickStage(e) ==
    CASE e.kind = "MouseMove" /\ LaidOut -> 1
      [] e.kind = "MouseDown" /\ click = 1 -> 2
      [] e.kind = "MouseUp" /\ click = 2 -> 3
      [] OTHER -> 0

\* ---------------------------------------------------------- identifiers
Threads == 1 .. NumThreads

\* WidgetId::root() is WidgetId(Id(0)); no thread holds it for a Pod
RootId == 0

\* static NEXT: AtomicU64 = AtomicU64::new(1)
FirstId == 1

\* slip: the value is loaded and nothing is stored
FetchAddLoadOnly(n) == [id |-> n, next |-> n]

\* NEXT.fetch_add(1, SeqCst): the value before is returned, one more stored
FetchAdd(n) == [id |-> n, next |-> n + 1]

\* before any Pod is built
IdInit ==
    /\ next = FirstId
    /\ taken = [t \in Threads |-> RootId]
    /\ made = <<>>

\* the orchestrator when launch has wrapped the root widget in its Pod
LoopInit ==
    /\ events = <<>>
    /\ resized = FALSE
    /\ minimized = FALSE
    /\ arrivals = <<>>
    /\ frame = <<>>
    /\ pc = "launch"
    /\ inbox = <<>>
    /\ failed = FALSE
    /\ gfx = GraphicsInit
    /\ resizes = 0

Dispatch(e, c, B) ==
    /\ Idle
    /\ click' = ClickStage(e)
    /\ \E r \in {RootEvent(e, c, B)} :
        /\ hot' = r.s.hot
        /\ active' = r.s.active
        /\ press' = r.s.press
        /\ log' = r.s.log
        /\ last' = Call("event", e, r.flow)
    /\ cursor' = c
    /\ UNCHANGED <<size, scene, derived, ident, loop>>

Init ==
    /\ scene \in Scenes
    /\ hot = [p \in Pods |-> FALSE]
    /\ active = [p \in Pods |-> FALSE]
    /\ size = [p \in Pods |-> ZERO]
    /\ press = [p \in Pods |-> NoBtn]
    /\ cursor = ZERO
    /\ click = 0
    /\ chain = <<>>
    /\ offs = <<>>
    /\ LoopInit
    /\ IdInit
    /\ log = <<>>
    /\ last = Call("idle", Other("idle"), Continue)

\* Environment::hover / a CursorMoved of the frame: the Context is built
\* from the same point the MouseMove carries
Hover ==
    \E pt \in Points, B \in SUBSET Leaves : Dispatch(MouseMove(pt), pt, B)

Press ==
    \E b \in Buttons, B \in SUBSET Leaves : Dispatch(MouseDown(b), cursor, B)

Release ==
    \E b \in Buttons, B \in SUBSET Leaves : Dispatch(MouseUp(b), cursor, B)

Deliver ==
    \E k \in OtherKinds, B \in SUBSET Leaves : Dispatch(Other(k), cursor, B)

Layout ==
    /\ Idle
    /\ size' = [p \in Pods |-> IF Entered(p) THEN LayoutSize(p, WinSize) ELSE size[p]]
    /\ log' = IF scene.entry = "pod"
              THEN PodPass(RootPod, "layout", NewContext(cursor), <<>>)
              ELSE ZStackPass(RootPod, 1, "layout", NewContext(cursor), <<>>)
    /\ last' = Call("layout", Other("layout"), Continue)
    /\ click' = 0
    /\ UNCHANGED <<hot, active, press, cursor, scene, derived, ident, loop>>

\* slip: a pass takes the Pods to be no longer under the cursor
PassClearsHot ==
    \E k \in PassKinds :
        /\ Idle
        /\ log' = IF scene.entry = "pod"
                  THEN PodPass(RootPod, k, NewContext(cursor), <<>>)
                  ELSE ZStackPass(RootPod, 1, k, NewContext(cursor), <<>>)
        /\ last' = Call(k, Other(k), Continue)
        /\ click' = 0
        /\ hot' = [p \in Pods |-> FALSE]
        /\ UNCHANGED <<active, size, press, cursor, scene, derived, ident, loop>>

Pass ==
    \E k \in PassKinds :
        /\ Idle
        /\ log' = IF scene.entry = "pod"
                  THEN PodPass(RootPod, k, NewContext(cursor), <<>>)
                  ELSE ZStackPass(RootPod, 1, k, NewContext(cursor), <<>>)
        /\ last' = Call(k, Other(k), Continue)
        /\ click' = 0
        /\ UNCHANGED <<hot, active, size, press, cursor, scene, derived, ident, loop>>

\* the call on the root has returned and what it delivered has been observed
Return ==
    /\ ~Idle
    /\ log' = <<>>
    /\ last' = Call("idle", Other("idle"), Continue)
    /\ UNCHANGED <<hot, active, size, press, cursor, click, scene, derived, ident, loop>>

Next == Hover \/ Press \/ Release \/ Deliver \/ Layout \/ Pass \/ Return

Spec == Init /\ [][Next]_vars

\* ------------------------------------------------------ reading the log
Calls(a, p) == {i \in 1 .. Len(log) : log[i].at = a /\ log[i].pod = p}
Got(a, p, k) == \E i \in Calls(a, p) : log[i].ev.kind = k
Count(a, p, k) == Cardinality({i \in Calls(a, p) : log[i].ev.kind = k})
Dispatched(k) == last.op = "event" /\ last.ev.kind = k
Max(S) == CHOOSE x \in S : \A y \in S : y <= x

\* the calls in which the ZStack of Pod z received a MouseMove / another event
MoveCalls(z) == {i \in Calls("widget", z) : log[i].ev.kind = "MouseMove"}
OtherCalls(z) ==
    {i \in Calls("widget", z) : last.op = "event" /\ log[i].ev.kind # "MouseMove"}

\* the indices of the children of z whose contains holds at q
Containing(z, q) == {j \in 1 .. Len(Widgets(z)) : PodContains(Widgets(z)[j], q)}

\* q, in the coordinates of c's parent, is in the region where c becomes hot
HitRegion(c, q) == PodBounds(c, Sub(q, Offset(c))) /\ PodContains(c, q)

HotChildren(z) == {c \in Children(z) : hot[c]}

\* C1: right after a MouseMove dispatch, at most one child of every ZStack
\* is hot.
C1_HoverExclusivity ==
    Dispatched("MouseMove") => \A z \in ZStackPods : Cardinality(HotChildren(z)) <= 1

\* the case of C2: the ZStack of z received MouseMove(q), child number ia was
\* hot, and the higher child number ib is the one the move lands on
C2_Case(z, q, ia, ib) ==
    /\ ia < ib
    /\ last.hot[Widgets(z)[ia]]
    /\ ~last.hot[Widgets(z)[ib]]
    /\ HitRegion(Widgets(z)[ib], q)
    /\ ib = Max(Containing(z, q))

\* C2: when a lower child is hot and the move lands on a higher child, the
\* old child's widget gets exactly one MouseExit, the new child's widget
\* exactly one MouseEnter, and the MouseExit comes first.
C2_ExitThenEnter ==
    \A z \in ZStackPods : \A i \in MoveCalls(z) :
        \A ia, ib \in 1 .. Len(Widgets(z)) :
            C2_Case(z, log[i].ev.pt, ia, ib) =>
                LET a == Widgets(z)[ia]
                    b == Widgets(z)[ib]
                IN  /\ Count("widget", a, "MouseExit") = 1
                    /\ Count("widget", b, "MouseEnter") = 1
                    /\ \A x \in Calls("widget", a), y \in Calls("widget", b) : x < y

\* C3: on a MouseMove to a ZStack, every child that was hot and does not
\* receive the move is sent a MouseExit and ends with hot false, also when no
\* child contains the point.
C3_OthersExit ==
    \A z \in ZStackPods : \A i \in MoveCalls(z) :
        \A c \in Children(z) :
            (last.hot[c] /\ ~Got("pod", c, "MouseMove")) =>
                (Got("pod", c, "MouseExit") /\ ~hot[c])

\* C4: a MouseMove(q) to a ZStack is delivered to exactly one child, the last
\* child in child order whose contains(q) holds, and to no child when none
\* contains q.
C4_MoveToTopmost ==
    \A z \in ZStackPods : \A i \in MoveCalls(z) :
        LET q == log[i].ev.pt
            R == {c \in Children(z) : Got("pod", c, "MouseMove")}
        IN  /\ R = IF Containing(z, q) = {} THEN {}
                   ELSE {Widgets(z)[Max(Containing(z, q))]}
            /\ \A c \in R : /\ Cardinality(Calls("pod", c)) = 1
                            /\ \A k \in Calls("pod", c) : log[k].ev = log[i].ev

C4_Witness ==
    \E z \in ZStackPods : \E i \in MoveCalls(z) :
        /\ Cardinality(Containing(z, log[i].ev.pt)) >= 2
        /\ Got("pod", Widgets(z)[Len(Widgets(z))], "MouseMove")
        /\ ~Got("pod", Widgets(z)[1], "MouseMove")

\* child number j of z was invoked with event e / returned Break
Invoked(z, j, e) == \E k \in Calls("pod", Widgets(z)[j]) : log[k].ev = e
Broke(z, j) == \E k \in Calls("pod", Widgets(z)[j]) : log[k].flow = Break

\* C5: for an event other than MouseMove a ZStack invokes its children in
\* reverse child order up to and including the first that returns Break; no
\* child below it is invoked; the ZStack returns Break exactly when an invoked
\* child did, and so does the Pod that encloses it.
C5_BreakHalts ==
    \A z \in ZStackPods : \A i \in OtherCalls(z) :
        LET n == Len(Widgets(z))
            e == log[i].ev
        IN  /\ \A j \in 1 .. n :
                Invoked(z, j, e) <=>
                    \A h \in (j + 1) .. n : Invoked(z, h, e) /\ ~Broke(z, h)
            /\ log[i].flow = IF \E j \in 1 .. n : Broke(z, j) THEN Break ELSE Continue
            /\ \A k \in Calls("pod", z) : log[k].flow = log[i].flow

C5_Witness ==
    /\ Dispatched("MouseUp")
    /\ last.flow = Break
    /\ \E i \in OtherCalls(RootPod) :
        /\ Invoked(RootPod, NumChildren, log[i].ev)
        /\ Broke(RootPod, NumChildren)
        /\ ~Invoked(RootPod, 1, log[i].ev)
        /\ last.active[1]

\* C6: a MouseDown delivered to a Pod that is not hot is not forwarded to its
\* widget, the Pod returns Continue and keeps its hot and active flags.
C6_SwallowedPress ==
    \A p \in Pods : \A i \in Calls("pod", p) :
        (log[i].ev.kind = "MouseDown" /\ ~last.hot[p]) =>
            /\ Calls("widget", p) = {}
            /\ log[i].flow = Continue
            /\ hot[p] = last.hot[p]
            /\ active[p] = last.active[p]

\* a press over a child that is not hot, while a sibling accepts it
C6_Witness ==
    \E p \in Leaves : \E i \in Calls("pod", p) :
        /\ log[i].ev.kind = "MouseDown"
        /\ ~last.hot[p]
        /\ HitRegion(p, log[i].ctx.cursor)
        /\ \E w \in Pods \ {p, RootPod} : Got("widget", w, "MouseDown")

\* no handler called so far in the current call returned Break
NoBreak == \A i \in 1 .. Len(log) : log[i].flow = Continue

\* C7: MouseMove never changes active; a Pod that is active forwards the
\* MouseUp it receives to its widget and clears active, whether or not it is
\* still hot; a release dispatched at the root reaches every active Pod whose
\* enclosing Pods are active when no handler returns Break; a Pod that was
\* not pressed forwards no MouseUp, and a release delivers no MouseDown.
C7_ActivePersists ==
    /\ Dispatched("MouseMove") => active = last.active
    /\ Dispatched("MouseUp") =>
        \A p \in Built :
            /\ (last.active[p] /\ Got("pod", p, "MouseUp")) =>
                    (Count("widget", p, "MouseUp") = 1 /\ ~active[p])
            /\ (last.active[p] /\ NoBreak
                    /\ \A a \in Ancestors(p) \cap Built : last.active[a]) =>
                    Got("pod", p, "MouseUp")
            /\ ~last.active[p] => ~Got("widget", p, "MouseUp")
            /\ ~Got("widget", p, "MouseDown")

\* the release reaches a pressed leaf the pointer has left, while the pointer
\* is over a hot sibling that was not pressed
C7_Witness ==
    /\ Dispatched("MouseUp")
    /\ \E p \in Leaves, w \in Pods \ {RootPod} :
        /\ last.active[p] /\ ~last.hot[p] /\ ~active[p]
        /\ Got("widget", p, "MouseUp")
        /\ ~last.active[w] /\ last.hot[w]
        /\ Got("pod", w, "MouseUp") /\ ~Got("widget", w, "MouseUp")

\* C8: a new Pod is neither hot nor active, and active becomes true only in
\* a step that processes a MouseDown while the Pod is hot.
C8_ActiveOnlyByHotPress ==
    /\ \A p \in Pods : ~hot[p] /\ ~active[p]
    /\ [][\A p \in Pods :
            (~active[p] /\ active'[p]) =>
                (last'.op = "event" /\ last'.ev.kind = "MouseDown" /\ hot[p])]_vars

C8_Witness == \E p \in Leaves : active[p] /\ ~last.active[p] /\ last.hot[p]

\* C9: a Pod made active by an accepted MouseDown(b) stays active until
\* MouseUp(b), the release of the same button, is delivered to it.
C9_MatchingRelease ==
    [][\A p \in Pods :
        (active[p] /\ ~active'[p]) =>
            \E i \in 1 .. Len(log') :
                /\ log'[i].at = "pod" /\ log'[i].pod = p
                /\ log'[i].ev = MouseUp(press[p])]_vars

\* C10: the four cases of Pod::event on MouseMove(pt), with q the local point
\* and inside the bounds-and-contains test at q.
C10_PodMouseMove ==
    /\ Dispatched("MouseMove") => active = last.active
    /\ \A p \in Pods : \A i \in Calls("pod", p) :
        log[i].ev.kind = "MouseMove" =>
            LET q == Sub(log[i].ev.pt, Offset(p))
                inside == RectContains(size[p], q) /\ WidgetContains(p, q)
                fwd == IF inside
                       THEN IF last.hot[p] THEN MouseMove(q) ELSE MouseEnter
                       ELSE MouseExit
            IN  IF inside \/ last.hot[p]
                THEN /\ hot[p] = inside
                     /\ Cardinality(Calls("widget", p)) = 1
                     /\ \A j \in Calls("widget", p) :
                            log[j].ev = fwd /\ log[j].flow = log[i].flow
                ELSE /\ ~hot[p]
                     /\ Calls("widget", p) = {}
                     /\ log[i].flow = Continue

\* a hot Pod with a nonzero offset forwards the move with the local point
C10_Witness ==
    \E p \in Pods : \E i \in Calls("pod", p) : \E j \in Calls("widget", p) :
        /\ Offset(p) # ZERO
        /\ log[i].ev.kind = "MouseMove"
        /\ log[j].ev = MouseMove(Sub(log[i].ev.pt, Offset(p)))
        /\ log[j].flow = Break

\* the Pods whose inner widget was handed an event of kind k in the current call
Handed(k) == {p \in Built : Got("widget", p, k)}

\* C11: a MouseEnter reaches a Pod's inner widget only in a call in which the
\* Pod's hot goes from false to true, a MouseExit only in a call in which it
\* goes from true to false, and no inner widget is handed two MouseEnter in
\* one call.
C11_EnterExitByHotTransition ==
    last.op = "event" =>
        /\ \A p \in Handed("MouseEnter") :
              ~last.hot[p] /\ hot[p] /\ Count("widget", p, "MouseEnter") = 1
        /\ \A p \in Handed("MouseExit") : last.hot[p] /\ ~hot[p]

\* the calls of Pod::event with an event of kind k in the current call
PodCalls(k) == {i \in 1 .. Len(log) : log[i].at = "pod" /\ log[i].ev.kind = k}

\* the cursor of the parent's Context of call i, in the local space of the
\* Pod called
LocalCursor(i) == Sub(log[i].ctx.cursor, Offset(log[i].pod))

\* the local cursor of call i is inside the Pod's rectangle and its inner
\* widget's hit region
Inside(i) ==
    /\ RectContains(size[log[i].pod], LocalCursor(i))
    /\ WidgetContains(log[i].pod, LocalCursor(i))

\* C12: a Pod handed MouseEnter sets hot and forwards MouseEnter when its
\* local cursor is inside its rectangle and its inner widget's hit region;
\* otherwise it forwards nothing, leaves hot as it was and returns Continue.
C12_EnterRevalidated ==
    last.op = "event" =>
        \A i \in PodCalls("MouseEnter") :
            LET p == log[i].pod IN
            IF Inside(i)
            THEN hot[p] /\ Count("widget", p, "MouseEnter") = 1
            ELSE /\ Calls("widget", p) = {}
                 /\ hot[p] = last.hot[p]
                 /\ log[i].flow = Continue

\* one call hands MouseEnter to a Pod that accepts it and to one that does not
C12_Witness ==
    /\ last.op = "event"
    /\ \E i, j \in PodCalls("MouseEnter") :
          /\ Inside(i) /\ hot[log[i].pod]
          /\ ~Inside(j) /\ ~hot[log[j].pod]
          /\ log[i].ctx.transform # ZERO

\* C13 as stated: a Pod handed MouseExit forwards it to its inner widget only
\* when its local cursor is outside its rectangle or its hit region.
C13_ExitRevalidated ==
    last.op = "event" =>
        \A i \in PodCalls("MouseExit") :
            Got("widget", log[i].pod, "MouseExit") => ~Inside(i)

\* C13, amended: a Pod handed MouseExit tests only its hot flag. A hot Pod
\* clears hot and forwards the MouseExit once, wherever the cursor is; a Pod
\* that is not hot forwards nothing and returns Continue.
C13_ExitByHotOnly ==
    last.op = "event" =>
        \A i \in PodCalls("MouseExit") :
            LET p == log[i].pod IN
            IF last.hot[p]
            THEN ~hot[p] /\ Count("widget", p, "MouseExit") = 1
            ELSE /\ Calls("widget", p) = {}
                 /\ ~hot[p]
                 /\ log[i].flow = Continue

\* a hot Pod whose local cursor is still inside is handed MouseExit and
\* forwards it
C13_Witness ==
    /\ last.op = "event"
    /\ \E i \in PodCalls("MouseExit") :
          /\ Inside(i)
          /\ last.hot[log[i].pod]
          /\ Got("widget", log[i].pod, "MouseExit")

\* C14: a Pod handed an event of any kind other than the five mouse kinds
\* forwards it once to its inner widget whatever its hot and active flags
\* are, returns the flow its inner widget returned, and the dispatch leaves
\* every Pod's hot, active and size, and the offsets, as they were.
C14_OtherForwarded ==
    /\ [](last.op = "event" =>
            \A i \in 1 .. Len(log) :
                (log[i].at = "pod" /\ log[i].ev.kind \in OtherKinds) =>
                    /\ Cardinality(Calls("widget", log[i].pod)) = 1
                    /\ \A j \in Calls("widget", log[i].pod) :
                          /\ log[j].ev = log[i].ev
                          /\ log[j].flow = log[i].flow
                          /\ j < i)
    /\ [][(last'.op = "event" /\ last'.ev.kind \in OtherKinds) =>
            (hot' = hot /\ active' = active /\ size' = size /\ scene' = scene)]_vars

\* one dispatch of another kind reaches a Pod that is hot and active and a
\* Pod that is neither, and the second one's inner widget returns Break
C14_Witness ==
    /\ last.op = "event" /\ last.ev.kind \in OtherKinds
    /\ \E p, q \in Built :
          /\ hot[p] /\ active[p] /\ Got("widget", p, last.ev.kind)
          /\ ~hot[q] /\ ~active[q] /\ Got("widget", q, last.ev.kind)
          /\ \E i \in Calls("pod", q) : log[i].flow = Break

\* the children of the root ZStack whose inner widget was handed an event of
\* kind k in the current call
Receivers(k) == {c \in Children(RootPod) : Got("widget", c, k)}

\* the topmost child of the root ZStack that contains the cursor, if any
TopContaining ==
    IF Containing(RootPod, cursor) = {} THEN {}
    ELSE {Widgets(RootPod)[Max(Containing(RootPod, cursor))]}

\* the topmost child of the root ZStack whose rectangle and hit region hold
\* the cursor, if any
TopInRegion ==
    LET S == {j \in Containing(RootPod, cursor) : HitRegion(Widgets(RootPod)[j], cursor)}
    IN  IF S = {} THEN {} ELSE {Widgets(RootPod)[Max(S)]}

\* C15: after a hover at the cursor, a press and a release dispatched to a
\* ZStack, the press and the release each reach the inner widget of the
\* topmost child whose region holds the cursor and of no other child, and of
\* no child at all when no child's region holds the cursor.
C15_ClickTargeting ==
    (scene.entry = "zstack" /\ last.op = "event") =>
        /\ click = 2 => Receivers("MouseDown") \in {TopContaining, TopInRegion}
        /\ click = 3 => Receivers("MouseUp") \in {TopContaining, TopInRegion}

\* the calls of an inner widget's handler in the current call on the root
WidgetCalls == {i \in 1 .. Len(log) : log[i].at = "widget"}

\* C16: the Context an inner widget is handed with an event or an update
\* carries the flags its Pod has while the handler runs: ctx.hot is the Pod's
\* hot and ctx.active the Pod's active.
C16_ContextCarriesPodFlags ==
    last.op \in {"event", "update"} =>
        \A i \in WidgetCalls :
            (Cardinality(Calls("widget", log[i].pod)) = 1) =>
                /\ log[i].ctx.hot = hot[log[i].pod]
                /\ log[i].ctx.active = active[log[i].pod]

\* ------------------------------------------- deriving Contexts in a chain
\* the offsets a container may give a Pod
Offsets == (-1 .. 1) \X Rows

\* a root Context, as the driver builds it, and no Pod entered yet
CtxInit ==
    /\ scene \in {sc \in Scenes : sc.entry = "pod" /\ sc.offset = ZERO}
    /\ hot = [p \in Pods |-> FALSE]
    /\ active = [p \in Pods |-> FALSE]
    /\ size = [p \in Pods |-> ZERO]
    /\ press = [p \in Pods |-> NoBtn]
    /\ cursor \in Points
    /\ click = 0
    /\ log = <<>>
    /\ last = Call("idle", Other("idle"), Continue)
    /\ chain = <<NewContext(cursor)>>
    /\ offs = <<>>
    /\ LoopInit
    /\ IdInit

\* a Pod with offset o and flags h, a is entered: it derives its Context
\* from the one it was handed
Descend ==
    \E o \in Offsets, h \in BOOLEAN, a \in BOOLEAN :
        /\ Len(offs) < MaxDepth
        /\ chain' = Append(chain, Derive(chain[Len(chain)], o, h, a))
        /\ offs' = Append(offs, o)
        /\ UNCHANGED <<hot, active, size, press, cursor, log, last, click, scene, loop, ident>>

\* the innermost Pod returns: its caller goes on with the Context it holds
Ascend ==
    /\ Len(offs) > 0
    /\ chain' = SubSeq(chain, 1, Len(chain) - 1)
    /\ offs' = SubSeq(offs, 1, Len(offs) - 1)
    /\ UNCHANGED <<hot, active, size, press, cursor, log, last, click, scene, loop, ident>>

CtxNext == Descend \/ Ascend

CtxSpec == CtxInit /\ [][CtxNext]_vars

\* o[1] + ... + o[n]
RECURSIVE SumOffsets(_, _)
SumOffsets(o, n) == IF n = 0 THEN ZERO ELSE Add(SumOffsets(o, n - 1), o[n])

\* C17: the Context of the n-th nested Pod has the root cursor minus the sum
\* of the n offsets as its cursor and the translation by that sum as its
\* transform, and deriving it leaves the Contexts above it as they were.
C17_OffsetsCompose ==
    /\ [](\A n \in 0 .. Len(offs) :
            /\ chain[n + 1].cursor = Sub(cursor, SumOffsets(offs, n))
            /\ chain[n + 1].transform = SumOffsets(offs, n))
    /\ [][\A n \in 1 .. Len(chain) : n <= Len(chain') => chain'[n] = chain[n]]_vars

\* two nested Pods with different offsets, neither ZERO, have derived their
\* Contexts
C17_Witness ==
    /\ Len(offs) = 2
    /\ offs[1] # ZERO /\ offs[2] # ZERO /\ offs[1] # offs[2]
    /\ chain[3].cursor = Sub(cursor, Add(offs[1], offs[2]))
    /\ chain[3].cursor # chain[2].cursor

\* ------------------------------------------------ the orchestrator's loop
\* the platform notifications win_events.flush() yields: cursor motion, a
\* button press and release, a key press, a resize to a size that is not
\* zero, and the window being minimized and restored
Notifications ==
    {"CursorMoved", "Pressed", "Released", "Key", "Resized", "Minimized", "Restored"}

\* WidgetEvent::KeyDown { key, modifiers, repeat }
KeyDown(repeat) == Ev("KeyDown", IF repeat THEN "Repeat" ELSE NoBtn, NoPt)

\* every kind of notification the match on the flushed event tells apart:
\* the ones above, a scroll, keyboard input (a key repeated or released,
\* shift and insert pressed, input with no key), a character, a focus
\* change, a resize to zero, and one that is ignored (the cursor entering)
WindowEvents ==
    Notifications \cup
    {"Scroll", "KeyRepeated", "KeyReleased", "PasteKey", "KeyUnknown", "Char",
     "Focused", "ResizedZero", "CursorEntered"}

\* slip: a focus change is treated like the cursor entering and leaving
PushedFocusIgnored(n, c) ==
    CASE n = "CursorMoved" -> <<MouseMove(c)>>
      [] n = "Pressed" -> <<MouseDown("Left")>>
      [] n = "Released" -> <<MouseUp("Left")>>
      [] n = "Scroll" -> <<Other("MouseScroll")>>
      [] n = "Key" -> <<KeyDown(FALSE)>>
      [] n = "KeyRepeated" -> <<KeyDown(TRUE)>>
      [] n = "KeyReleased" -> <<Other("KeyUp")>>
      [] n = "PasteKey" -> <<Other("Paste")>>
      [] n = "Char" -> <<Other("CharacterReceived")>>
      [] OTHER -> <<>>

\* slip: keyboard input is matched on its state alone, key or no key
PushedKeyUnknown(n, c) ==
    CASE n = "CursorMoved" -> <<MouseMove(c)>>
      [] n = "Pressed" -> <<MouseDown("Left")>>
      [] n = "Released" -> <<MouseUp("Left")>>
      [] n = "Scroll" -> <<Other("MouseScroll")>>
      [] n \in {"Key", "KeyUnknown"} -> <<KeyDown(FALSE)>>
      [] n = "KeyRepeated" -> <<KeyDown(TRUE)>>
      [] n = "KeyReleased" -> <<Other("KeyUp")>>
      [] n = "PasteKey" -> <<Other("Paste")>>
      [] n = "Char" -> <<Other("CharacterReceived")>>
      [] n = "Focused" -> <<Other("Focus")>>
      [] OTHER -> <<>>

\* the WidgetEvents pushed on the queue for notification n, the cursor read
\* at the top of the iteration being c
Pushed(n, c) ==
    CASE n = "CursorMoved" -> <<MouseMove(c)>>
      [] n = "Pressed" -> <<MouseDown("Left")>>
      [] n = "Released" -> <<MouseUp("Left")>>
      [] n = "Scroll" -> <<Other("MouseScroll")>>
      [] n = "Key" -> <<KeyDown(FALSE)>>
      [] n = "KeyRepeated" -> <<KeyDown(TRUE)>>
      [] n = "KeyReleased" -> <<Other("KeyUp")>>
      [] n = "PasteKey" -> <<Other("Paste")>>
      [] n = "Char" -> <<Other("CharacterReceived")>>
      [] n = "Focused" -> <<Other("Focus")>>
      [] OTHER -> <<>>

\* WidgetEvent::Resized(win_size_ui), the size being the one read at the
\* top of the iteration
ResizedEvent == Ev("Resized", NoBtn, WinSize)

\* the WidgetEvent notification n is the origin of
Arrived(n, c) == IF n = "Resized" THEN <<ResizedEvent>> ELSE Pushed(n, c)

\* slip: the Resized is put in front of the queue
QueuedInFront == IF resized THEN <<ResizedEvent>> \o events ELSE events

\* if resized { events.push(WidgetEvent::Resized(win_size_ui)) }
Queued == IF resized THEN Append(events, ResizedEvent) ELSE events

\* if resized { renderer.handle_resized(win_size_logical) }: the calls made
HandleResized == IF resized THEN 1 ELSE 0

\* slip: the test for MouseMove is left out
CoalescedAlways(q) == IF Len(q) > 1 THEN <<q[Len(q)]>> ELSE q

\* events.drain(..events.len() - 1) when there are several events and all
\* of them are MouseMove
Coalesced(q) ==
    IF Len(q) > 1 /\ \A i \in 1 .. Len(q) : q[i].kind = "MouseMove"
    THEN <<q[Len(q)]>>
    ELSE q

\* slip: the Tick is dispatched after the queued events
EventCallsTickLast(q) == Append(q, Other("Tick"))

\* the events the root is handed in one iteration: the Tick, then the queue
EventCalls(q) == <<Other("Tick")>> \o q

\* root.event on each of evs in turn, from tree state s, with the Context of
\* the iteration
RECURSIVE DispatchAll(_, _, _, _)
DispatchAll(evs, i, c, s) ==
    IF i > Len(evs) THEN s
    ELSE With(PodEvent(RootPod, evs[i], NewContext(c), s, {}),
              LAMBDA r : DispatchAll(evs, i + 1, c, [r.s EXCEPT !.log = <<>>]))

\* the calls after the events of an iteration: the cursor is reconciled,
\* then update, layout with the window size, paint, the renderer, frame
Cursor == Other("cursor")

\* the same, win.set_cursor(x) having been called
SetCursor(x) == Ev("cursor", x, NoPt)

\* slip: the cursor the window returns is dropped
ReinsertNever(g, prev) == g.cursors

\* if let Some(name) = self.graphics.cursor { cursors.insert(name, prev) }
Reinsert(g, prev) ==
    IF prev # NoCursor /\ g.cursor # NoCursor
    THEN [g.cursors EXCEPT ![g.cursor] = prev]
    ELSE g.cursors

\* win.set_cursor(c), the window holding w: c is installed and the cursor
\* installed before is returned
WinSetCursor(w, c) == [window |-> c, prev |-> w]

\* the cursor the root declares is compared with the one displayed: the
\* Graphics and the window afterwards, and the call made on the window
Reconcile(declared, g) ==
    IF declared # NoCursor
    THEN IF g.cursor # declared /\ g.cursors[declared] # NoCursor
         THEN LET removed == [g EXCEPT !.cursors[declared] = NoCursor]
                  w == WinSetCursor(g.window, g.cursors[declared])
              IN  [g |-> [removed EXCEPT !.cursor = declared,
                                         !.cursors = Reinsert(removed, w.prev),
                                         !.window = w.window],
                   call |-> SetCursor(declared)]
         ELSE [g |-> g, call |-> Cursor]
    ELSE LET w == WinSetCursor(g.window, NoCursor)
         IN  [g |-> IF w.prev # NoCursor
                    THEN [g EXCEPT !.cursor = NoCursor,
                                   !.cursors = Reinsert(g, w.prev),
                                   !.window = w.window]
                    ELSE [g EXCEPT !.window = w.window],
              call |-> SetCursor("None")]
PassCalls ==
    <<Other("update"), Ev("layout", NoBtn, WinSize), Other("paint"),
      Other("render"), Other("frame")>>

\* slip: the first layout is left to the first frame
StartupCallsNoLayout == <<Other("lifecycle"), Other("update")>>

\* the calls on the root before the loop: the Initialized lifecycle, then
\* the initial update and the layout with the window size
StartupCalls ==
    <<Other("lifecycle"), Other("update"), Ev("layout", NoBtn, WinSize)>>

\* the sizes of the Pods after the calls, the sizes before being sz: each
\* layout among them lays the tree out
RECURSIVE SizesAfter(_, _, _)
SizesAfter(calls, i, sz) ==
    IF i > Len(calls) THEN sz
    ELSE SizesAfter(calls, i + 1,
                    IF calls[i].kind = "layout"
                    THEN [p \in Pods |-> LayoutSize(p, calls[i].pt)]
                    ELSE sz)

\* Application::launch, from the root Pod to the loop
Launch ==
    /\ pc = "launch"
    /\ frame' = StartupCalls
    /\ size' = SizesAfter(StartupCalls, 1, size)
    /\ pc' = "top"
    /\ UNCHANGED <<hot, active, press, cursor, log, last, click, scene, derived, ident,
                   events, resized, minimized, arrivals, inbox, failed, gfx, resizes>>

\* the tree and the orchestrator when Application::launch has built the
\* root Pod
FrameInit ==
    /\ scene = [entry |-> "pod", leaves |-> "region", offset |-> ZERO, top |-> "nested"]
    /\ hot = [p \in Pods |-> FALSE]
    /\ active = [p \in Pods |-> FALSE]
    /\ size = [p \in Pods |-> ZERO]
    /\ press = [p \in Pods |-> NoBtn]
    /\ cursor = ZERO
    /\ click = 0
    /\ log = <<>>
    /\ last = Call("idle", Other("idle"), Continue)
    /\ chain = <<>>
    /\ offs = <<>>
    /\ LoopInit
    /\ IdInit

\* the cursor positions the platform reports: one outside every child's
\* region and one inside all of them
Spots == {ZERO, <<1, 1>>}

\* the top of an iteration: the cursor position is read
Poll ==
    \E c \in Spots :
        /\ pc = "top"
        /\ cursor' = c
        /\ frame' = <<>>
        /\ pc' = "flushing"
        /\ UNCHANGED <<hot, active, size, press, log, last, click, scene, derived, ident,
                       events, resized, minimized, arrivals, inbox, failed, gfx, resizes>>

\* one turn of for event in win_events.flush() { match event { .. } }
Receive ==
    \E n \in Notifications :
        /\ pc = "flushing"
        /\ Arrived(n, cursor) # <<>> => Len(arrivals) < MaxQueue
        /\ events' = events \o Pushed(n, cursor)
        /\ arrivals' = arrivals \o Arrived(n, cursor)
        /\ resized' = ((n = "Resized") \/ resized)
        /\ minimized' = CASE n \in {"Resized", "Restored"} -> FALSE
                          [] n = "Minimized" -> TRUE
                          [] OTHER -> minimized
        /\ UNCHANGED <<hot, active, size, press, cursor, log, last, click, scene,
                       derived, ident, frame, pc, inbox, failed, gfx, resizes>>

\* slip: the queue is emptied when the iteration is skipped
SkipFrameClearsQueue ==
    /\ pc = "flushing" /\ minimized
    /\ events' = <<>>
    /\ pc' = "top"
    /\ UNCHANGED <<hot, active, size, press, cursor, log, last, click, scene, derived, ident,
                   resized, minimized, arrivals, frame, inbox, failed, gfx, resizes>>

\* slip: the window state is tested after the Tick has been dispatched
SkipFrameAfterTick ==
    /\ pc = "flushing" /\ minimized
    /\ frame' = <<Other("Tick")>>
    /\ pc' = "top"
    /\ UNCHANGED <<hot, active, size, press, cursor, log, last, click, scene, derived, ident,
                   events, resized, minimized, arrivals, inbox, failed, gfx, resizes>>

\* if minimized { continue }
SkipFrame ==
    /\ pc = "flushing" /\ minimized
    /\ pc' = "top"
    /\ UNCHANGED <<hot, active, size, press, cursor, log, last, click, scene, derived, ident,
                   events, resized, minimized, arrivals, frame, inbox, failed, gfx, resizes>>

\* the pending resize is queued, the Tick and the queue are dispatched and
\* the cursor is reconciled
Events ==
    /\ pc = "flushing" /\ ~minimized
    /\ \E calls \in {EventCalls(Coalesced(Queued))} :
        /\ \E s \in {DispatchAll(calls, 1, cursor, State)} :
            /\ hot' = s.hot
            /\ active' = s.active
            /\ press' = s.press
            /\ \E r \in {Reconcile(PodCursor(RootPod, s.hot), gfx)} :
                /\ gfx' = r.g
                /\ frame' = Append(calls, r.call)
    /\ events' = <<>>
    /\ resizes' = HandleResized
    /\ resized' = FALSE
    /\ pc' = "dispatched"
    /\ UNCHANGED <<size, cursor, log, last, click, scene, derived, ident, minimized, arrivals,
                   inbox, failed>>

\* renderer.frame(..) returned an error
RenderError == Ev("render", "Err", NoPt)

\* the calls after the events when the renderer returns Ok or an error: the
\* error is logged by unwrap_or_else and root.frame is called all the same
Rendered(ok) == [PassCalls EXCEPT ![4] = IF ok THEN @ ELSE RenderError]

\* slip: the error is returned from launch with the ? operator
AfterRenderReturns(ok) == IF ok THEN "presented" ELSE "returned"

\* where the iteration goes on after the renderer's frame: to win.present()
AfterRender(ok) == "presented"

\* update, layout, paint, the renderer's frame and the root's frame
Passes ==
    \E ok \in BOOLEAN :
        /\ pc = "dispatched"
        /\ size' = [p \in Pods |-> LayoutSize(p, WinSize)]
        /\ frame' = frame \o Rendered(ok)
        /\ failed' = (failed \/ ~ok)
        /\ pc' = AfterRender(ok)
        /\ UNCHANGED <<hot, active, press, cursor, log, last, click, scene, derived, ident,
                       events, resized, minimized, arrivals, inbox, gfx, resizes>>

\* win.present(), and the loop goes round
Present ==
    /\ pc = "presented"
    /\ frame' = <<>>
    /\ arrivals' = <<>>
    /\ inbox' = <<>>
    /\ resizes' = 0
    /\ pc' = "top"
    /\ UNCHANGED <<hot, active, size, press, cursor, log, last, click, scene, derived, ident,
                   events, resized, minimized, failed, gfx>>

\* one turn of the same loop, over every kind of notification, recorded
Flush ==
    \E n \in WindowEvents :
        /\ pc = "flushing"
        /\ Len(inbox) < MaxFlush
        /\ inbox' = Append(inbox, [note |-> n,
                                   at |-> IF n = "CursorMoved" THEN cursor ELSE NoPt])
        /\ events' = events \o Pushed(n, cursor)
        /\ arrivals' = arrivals \o Arrived(n, cursor)
        /\ resized' = ((n = "Resized") \/ resized)
        /\ minimized' = CASE n \in {"Resized", "Restored"} -> FALSE
                          [] n \in {"ResizedZero", "Minimized"} -> TRUE
                          [] OTHER -> minimized
        /\ UNCHANGED <<hot, active, size, press, cursor, log, last, click, scene,
                       derived, ident, frame, pc, failed, gfx, resizes>>

FrameNext == Launch \/ Poll \/ Receive \/ SkipFrame \/ Events \/ Passes \/ Present

FrameSpec == FrameInit /\ [][FrameNext]_vars

\* the same loop, every step of an iteration being taken in the end: the
\* for loop over the flushed notifications ends, and the calls return
LiveSpec ==
    /\ FrameInit /\ [][FrameNext]_vars
    /\ WF_vars(Launch)
    /\ WF_vars(Poll)
    /\ WF_vars(SkipFrame \/ Events)
    /\ WF_vars(Passes)
    /\ WF_vars(Present)

\* ------------------------------------------------- the loop and its cursors
\* the tree and the orchestrator when Application::launch has built the
\* root Pod, the application having registered some of the cursors the
\* widgets declare, all of them or none
CursorInit ==
    /\ scene = [entry |-> "pod", leaves |-> "region", offset |-> ZERO, top |-> "nested"]
    /\ hot = [p \in Pods |-> FALSE]
    /\ active = [p \in Pods |-> FALSE]
    /\ size = [p \in Pods |-> ZERO]
    /\ press = [p \in Pods |-> NoBtn]
    /\ cursor = ZERO
    /\ click = 0
    /\ log = <<>>
    /\ last = Call("idle", Other("idle"), Continue)
    /\ chain = <<>>
    /\ offs = <<>>
    /\ events = <<>>
    /\ resized = FALSE
    /\ minimized = FALSE
    /\ arrivals = <<>>
    /\ frame = <<>>
    /\ pc = "launch"
    /\ inbox = <<>>
    /\ failed = FALSE
    /\ gfx \in {Registered(R) : R \in SUBSET CursorNames}
    /\ resizes = 0
    /\ IdInit

\* the top of an iteration, the cursor being anywhere in the window
Look ==
    \E c \in Points :
        /\ pc = "top"
        /\ cursor' = c
        /\ frame' = <<>>
        /\ pc' = "flushing"
        /\ UNCHANGED <<hot, active, size, press, log, last, click, scene, derived, ident,
                       events, resized, minimized, arrivals, inbox, failed, gfx, resizes>>

\* the flush yields one CursorMoved
Moved ==
    /\ pc = "flushing"
    /\ events = <<>>
    /\ events' = events \o Pushed("CursorMoved", cursor)
    /\ arrivals' = arrivals \o Arrived("CursorMoved", cursor)
    /\ UNCHANGED <<hot, active, size, press, cursor, log, last, click, scene,
                   derived, ident, resized, minimized, frame, pc, inbox, failed, gfx,
                   resizes>>

CursorNext == Launch \/ Look \/ Moved \/ Events \/ Passes \/ Present

CursorSpec == CursorInit /\ [][CursorNext]_vars

\* ------------------------------------------------------- building Pods
\* thread t, in Pod::new, evaluates WidgetId::next(): one atomic step
Draw(t) ==
    /\ taken[t] = RootId
    /\ next <= MaxIds
    /\ \E r \in {FetchAdd(next)} :
        /\ taken' = [taken EXCEPT ![t] = r.id]
        /\ next' = r.next
    /\ UNCHANGED <<hot, active, size, press, cursor, log, last, click, scene, derived,
                   loop, made>>

\* thread t's Pod::new returns the Pod, with the id it drew
Build(t) ==
    /\ taken[t] # RootId
    /\ made' = Append(made, taken[t])
    /\ taken' = [taken EXCEPT ![t] = RootId]
    /\ UNCHANGED <<hot, active, size, press, cursor, log, last, click, scene, derived,
                   loop, next>>

IdNext == \E t \in Threads : Draw(t) \/ Build(t)

IdSpec == FrameInit /\ [][IdNext]_vars

\* the loop with every kind of notification, a bounded number per frame
QueueNext == Launch \/ Poll \/ Flush \/ SkipFrame \/ Events \/ Passes \/ Present

QueueSpec == FrameInit /\ [][QueueNext]_vars

\* the WidgetEvents of the queue the root was handed in the iteration, once
\* the events have been dispatched: what lies between the Tick and the
\* reconciliation of the cursor
Handled ==
    IF pc = "dispatched" THEN SubSeq(frame, 2, Len(frame) - 1)
    ELSE SubSeq(frame, 2, Len(frame) - 1 - Len(PassCalls))

\* d[i ..] can be read off a[j ..] from left to right, skipping elements of a
RECURSIVE SubseqFrom(_, _, _, _)
SubseqFrom(d, i, a, j) ==
    IF i > Len(d) THEN TRUE
    ELSE IF j > Len(a) THEN FALSE
    ELSE IF d[i] = a[j] THEN SubseqFrom(d, i + 1, a, j + 1)
    ELSE SubseqFrom(d, i, a, j + 1)

IsSubseq(d, a) == SubseqFrom(d, 1, a, 1)

\* the elements of q that are not MouseMove, in order
NonMoves(q) == SelectSeq(q, LAMBDA e : e.kind # "MouseMove")

LoopCalls == {"Tick", "cursor", "update", "layout", "paint", "render", "frame"}

\* C18: an iteration in which the window is not minimized hands the root
\* the Tick first and once, then the queued events (every one that is not a
\* MouseMove, and the last one, in queue order), reconciles the cursor, then
\* runs update, layout with the window size, paint, the renderer and frame,
\* once each and in this order.
C18_FrameSequence ==
    /\ [](pc = "presented" =>
            LET n == Len(frame) IN
            /\ n >= 7
            /\ frame[1] = Other("Tick")
            /\ \A i \in 2 .. n - 6 : frame[i].kind \notin LoopCalls
            /\ frame[n - 5].kind = "cursor"
            /\ frame[n - 4].kind = "update"
            /\ frame[n - 3] = Ev("layout", NoBtn, WinSize)
            /\ frame[n - 2].kind = "paint"
            /\ frame[n - 1].kind = "render"
            /\ frame[n].kind = "frame")
    /\ [][(pc = "flushing" /\ pc' = "dispatched") =>
            LET q == Queued
                d == SubSeq(frame', 2, Len(frame') - 1)
            IN  /\ ~minimized
                /\ frame'[1] = Other("Tick")
                /\ frame'[Len(frame')].kind = "cursor"
                /\ IsSubseq(d, q)
                /\ NonMoves(d) = NonMoves(q)
                /\ q # <<>> => (d # <<>> /\ d[Len(d)] = q[Len(q)])
                /\ events' = <<>>]_vars
    /\ [][(pc = "flushing" /\ ~minimized) => pc' \in {"flushing", "dispatched"}]_vars

\* an iteration that handled a MouseMove, another event and a Resized has
\* run to its end
C18_Witness ==
    /\ pc = "presented"
    /\ Len(frame) >= 9
    /\ \E i, j, k \in 2 .. Len(frame) - 6 :
          /\ i < j /\ j < k
          /\ frame[i].kind = "MouseMove"
          /\ frame[j].kind = "KeyDown"
          /\ frame[k].kind = "Resized"

\* C19: in the events dispatched in one iteration no MouseMove is followed
\* directly by another MouseMove: every run of consecutive MouseMove events
\* of the queue has been collapsed to its last one.
C19_MoveRunsCollapsed ==
    pc \in {"dispatched", "presented"} =>
        \A i \in 1 .. Len(Handled) - 1 :
            ~(Handled[i].kind = "MouseMove" /\ Handled[i + 1].kind = "MouseMove")

\* C20: the events dispatched in one iteration come in the order in which
\* the notifications they stem from arrived, resize notifications included.
C20_ArrivalOrder ==
    pc \in {"dispatched", "presented"} => IsSubseq(Handled, arrivals)

\* ------------------------------------------------- notifications to events
\* the WidgetEvent kind that corresponds to a platform input notification
Kind(n) ==
    CASE n = "CursorMoved" -> "MouseMove"
      [] n = "Pressed" -> "MouseDown"
      [] n = "Released" -> "MouseUp"
      [] n = "Scroll" -> "MouseScroll"
      [] n \in {"Key", "KeyRepeated", "KeyUnknown"} -> "KeyDown"
      [] n = "KeyReleased" -> "KeyUp"
      [] n = "PasteKey" -> "Paste"
      [] n = "Char" -> "CharacterReceived"
      [] n = "Focused" -> "Focus"
      [] n \in {"Resized", "ResizedZero"} -> "Resized"
      [] OTHER -> "none"

EventKinds ==
    {"MouseMove", "MouseDown", "MouseUp", "MouseScroll", "KeyDown", "KeyUp", "Paste",
     "CharacterReceived", "Focus", "Resized"}

\* how many elements of the sequence q satisfy Test
Number(q, Test(_)) == Cardinality({i \in 1 .. Len(q) : Test(q[i])})

\* the frame's events are still to be dispatched
Pending == pc \in {"top", "flushing"}

\* C21 (as stated): for every kind, as many WidgetEvents of the kind are
\* queued for the tree as notifications of the kind were flushed, and the
\* root is handed no other event than these and the Tick.
C21_OneToOne ==
    /\ Pending =>
        \A k \in EventKinds :
            Number(Queued, LAMBDA e : e.kind = k)
                = Number(inbox, LAMBDA m : Kind(m.note) = k)
    /\ pc = "dispatched" =>
        \A i \in 1 .. Len(frame) - 1 :
            \/ frame[i].kind = "Tick"
            \/ \E j \in 1 .. Len(inbox) : Kind(inbox[j].note) = frame[i].kind

\* the notifications that are translated one to one: a resize is not, nor
\* is keyboard input without a key
Direct(n) == Kind(n) \notin {"none", "Resized"} /\ n # "KeyUnknown"

\* the WidgetEvent of the corresponding kind for notification m
Counterpart(m) ==
    CASE m.note = "CursorMoved" -> MouseMove(m.at)
      [] m.note = "Pressed" -> MouseDown("Left")
      [] m.note = "Released" -> MouseUp("Left")
      [] m.note = "KeyRepeated" -> KeyDown(TRUE)
      [] OTHER -> Other(Kind(m.note))

\* C21 (amended): the queue holds, in the order of arrival, exactly one
\* WidgetEvent of the corresponding kind for every flushed notification
\* that is neither a resize nor keyboard input without a key; resizes to a
\* size that is not zero leave one Resized pending, however many they are;
\* the root is handed only the Tick and events with a counterpart.
C21_Translation ==
    /\ Pending =>
        LET direct == SelectSeq(inbox, LAMBDA m : Direct(m.note))
        IN  /\ Len(events) = Len(direct)
            /\ \A i \in 1 .. Len(direct) : events[i] = Counterpart(direct[i])
            /\ resized = (\E j \in 1 .. Len(inbox) : inbox[j].note = "Resized")
            /\ Number(Queued, LAMBDA e : e.kind = "Resized") = IF resized THEN 1 ELSE 0
    /\ pc = "dispatched" =>
        \A i \in 1 .. Len(frame) - 1 :
            \/ frame[i].kind = "Tick"
            \/ \E j \in 1 .. Len(inbox) :
                /\ Kind(inbox[j].note) = frame[i].kind
                /\ inbox[j].note \notin {"KeyUnknown", "ResizedZero"}

\* a focus change and a scroll have been queued
C21_Witness ==
    /\ pc = "flushing"
    /\ Len(inbox) = 2
    /\ inbox[1].note = "Focused" /\ inbox[2].note = "Scroll"
    /\ events = <<Other("Focus"), Other("MouseScroll")>>

\* the events the root is handed for the notifications ms, before it is
\* decided which MouseMoves to keep: a counterpart each, then one Resized
\* if a resize is among them
Expected(ms) ==
    LET direct == SelectSeq(ms, LAMBDA m : Direct(m.note))
    IN  [i \in 1 .. Len(direct) |-> Counterpart(direct[i])]
        \o (IF \E j \in 1 .. Len(ms) : ms[j].note = "Resized"
            THEN <<ResizedEvent>> ELSE <<>>)

KeyKinds == {"KeyDown", "KeyUp", "Paste"}

\* C22: keyboard input without a key queues no event and changes nothing
\* else; the frame dispatches no more KeyDown, KeyUp and Paste than there
\* were notifications with a key, and what it dispatches is what it would
\* have dispatched had the input without a key never arrived.
C22_UnknownKeyDropped ==
    /\ [][(/\ pc = "flushing"
           /\ Len(inbox') = Len(inbox) + 1
           /\ inbox'[Len(inbox')].note = "KeyUnknown")
            => UNCHANGED <<events, arrivals, resized, minimized, hot, active, frame>>]_vars
    /\ [](pc = "dispatched" =>
            LET rest == Expected(SelectSeq(inbox, LAMBDA m : m.note # "KeyUnknown"))
            IN  /\ Number(Handled, LAMBDA e : e.kind \in KeyKinds)
                    = Number(inbox, LAMBDA m :
                        m.note \in {"Key", "KeyRepeated", "KeyReleased", "PasteKey"})
                /\ IsSubseq(Handled, rest)
                /\ NonMoves(Handled) = NonMoves(rest)
                /\ rest # <<>> =>
                    (Handled # <<>> /\ Handled[Len(Handled)] = rest[Len(rest)]))

\* input without a key arrived before a key was released, and the frame
\* dispatched the KeyUp alone
C22_Witness ==
    /\ pc = "dispatched"
    /\ Len(inbox) = 2
    /\ inbox[1].note = "KeyUnknown"
    /\ inbox[2].note = "KeyReleased"
    /\ Handled = <<Other("KeyUp")>>

\* ------------------------------------------------------- renderer failure
\* C23: whether the renderer's frame returns Ok or an error, the iteration
\* goes on to root.frame and win.present() and the loop goes round: the
\* next submission belongs to a new iteration, which starts at the top and
\* can always start, and once a submission has failed every later frame
\* that is not minimized still runs the Tick, the events, update, layout,
\* paint, a submission and frame.
C23_FailureDoesNotHalt ==
    /\ [][pc = "dispatched" =>
            /\ pc' = "presented"
            /\ Len(frame') = Len(frame) + 5
            /\ frame'[Len(frame') - 1].kind = "render"
            /\ frame'[Len(frame')].kind = "frame"]_vars
    /\ [][pc = "presented" => (pc' = "top" /\ frame' = <<>>)]_vars
    /\ [](pc \in {"launch", "top", "flushing", "dispatched", "presented"})
    /\ [](pc = "top" => ENABLED Poll)
    /\ []((failed /\ pc = "presented") =>
            LET n == Len(frame) IN
            /\ n >= 7
            /\ frame[1].kind = "Tick"
            /\ frame[n - 5].kind = "cursor"
            /\ frame[n - 4].kind = "update"
            /\ frame[n - 3].kind = "layout"
            /\ frame[n - 2].kind = "paint"
            /\ frame[n - 1].kind = "render"
            /\ frame[n].kind = "frame"
            /\ Cardinality({i \in 1 .. n : frame[i].kind = "render"}) = 1)

\* after a frame the renderer failed to draw, a later frame has dispatched
\* a MouseMove and has been drawn
C23_Witness ==
    /\ failed
    /\ pc = "presented"
    /\ frame[Len(frame) - 1] = Other("render")
    /\ \E i \in 2 .. Len(frame) - 6 : frame[i].kind = "MouseMove"

\* ------------------------------------------------- cursor reconciliation
\* the frame's events are dispatched and the cursor is reconciled
Reconciling == pc = "flushing" /\ pc' = "dispatched"

\* C24: the frame calls set_cursor on the window only if the cursor the
\* root declares after the events, none included, differs from the cursor
\* displayed since the previous frame.
C24_SwapOnlyOnChange ==
    [][Reconciling =>
        (frame'[Len(frame')] # Cursor => PodCursor(RootPod, hot') # gfx.cursor)]_vars

\* ------------------------------------------------------- ZStack::cursor
\* the numbers of the hot children of the ZStack of z
HotNumbers(z) == {i \in 1 .. Len(Widgets(z)) : hot[Widgets(z)[i]]}

Declaring(z) == {i \in HotNumbers(z) : PodCursor(Widgets(z)[i], hot) # NoCursor}

Path(p, l) == {p, l} \cup (Ancestors(l) \ Ancestors(p))

\* the sum of the offsets of the Pods in S
RECURSIVE OffsetSum(_)
OffsetSum(S) ==
    IF S = {} THEN ZERO
    ELSE LET x == CHOOSE y \in S : TRUE IN Add(Offset(x), OffsetSum(S \ {x}))

\* the leaves in the subtree of Pod p
LeavesBelow(p) == {l \in Leaves : l = p \/ p \in Ancestors(l)}

\* C26: a Pod contains a point exactly when some leaf of its subtree
\* contains the point less the offsets of the Pods on the way down to it;
\* a ZStack contains it exactly when one of its children's Pods does, and
\* a ZStack without children contains no point. The tests change nothing:
\* a MouseMove that is only hit-tested, because no Pod is hot and the point
\* is in no hit region, leaves every Pod as it was.
C26_HitTestComposes ==
    /\ [](\A q \in Points :
            /\ \A p \in Pods :
                PodContains(p, q)
                    = \E l \in LeavesBelow(p) :
                        LeafContains(l, Sub(q, OffsetSum(Path(p, l))))
            /\ \A z \in ZStackPods :
                ZStackContains(z, q) = \E c \in Children(z) : PodContains(c, q)
            /\ ~AnyContains(<<>>, q))
    /\ [][(/\ Idle
           /\ last'.op = "event" /\ last'.ev.kind = "MouseMove"
           /\ \A p \in Pods : ~hot[p]
           /\ \A p \in Built : ~HitRegion(p, last'.ev.pt))
            => UNCHANGED <<hot, active, press, size>>]_vars

\* a MouseMove went to a root Pod with an offset, to a point the Pod does
\* not contain although its inner widget would contain that very point
C26_Witness ==
    /\ Dispatched("MouseMove")
    /\ scene.offset # ZERO
    /\ ~PodContains(RootPod, last.ev.pt)
    /\ WidgetContains(RootPod, last.ev.pt)

\* --------------------------------------------------------------- fan-out
\* the call on the root was a pass: update, layout, paint, lifecycle, frame
Passed == last.op \in PassKinds \cup {"layout"}

\* the place in the log of the one call of the inner widget of Pod p
Place(p) == CHOOSE i \in Calls("widget", p) : TRUE

\* C27: a pass on the root reaches the inner widget of every Pod of the
\* tree exactly once, whatever the Pods' hot and active flags, and under
\* every ZStack the children are reached in child order, number 1 first.
C27_PassFanOut ==
    Passed =>
        /\ \A p \in Built : Cardinality(Calls("widget", p)) = 1
        /\ Len(log) = Cardinality(Built)
        /\ \A i \in 1 .. Len(log) : log[i].ev.kind = last.op
        /\ \A z \in ZStackPods :
            \A i, j \in 1 .. Len(Widgets(z)) :
                i < j => Place(Widgets(z)[i]) < Place(Widgets(z)[j])

\* a paint pass went over a tree whose top child is hot and whose bottom
\* child is active and not hot
C27_Witness ==
    /\ last.op = "paint"
    /\ hot[Widgets(RootPod)[NumChildren]]
    /\ ~hot[Widgets(RootPod)[1]]
    /\ active[Widgets(RootPod)[1]]
    /\ Len(log) >= 3

\* ---------------------------------------------------- widget identifiers
\* the ids that have been drawn: those of the Pods built and those held by
\* a thread for the Pod it is building
Drawn == ({made[i] : i \in 1 .. Len(made)} \cup {taken[t] : t \in Threads}) \ {RootId}

\* C28: the ids drawn are pairwise distinct, whatever the interleaving of
\* the threads, and none is the root id 0; every id drawn is greater than
\* all the ids drawn before it, so a Pod built after another one was
\* finished has the greater id; a Pod that has been built keeps its id.
C28_IdsUniqueMonotonic ==
    /\ [](/\ \A i, j \in 1 .. Len(made) : i # j => made[i] # made[j]
          /\ \A t, u \in Threads : (t # u /\ taken[t] # RootId) => taken[t] # taken[u]
          /\ \A t \in Threads, i \in 1 .. Len(made) : taken[t] # made[i]
          /\ \A i \in 1 .. Len(made) : made[i] # RootId
          /\ \A x \in Drawn : x < next)
    /\ [][\A t \in Threads :
            (taken[t] = RootId /\ taken'[t] # RootId)
                => \A x \in Drawn : x < taken'[t]]_vars
    /\ [][/\ Len(made') >= Len(made)
          /\ \A i \in 1 .. Len(made) : made'[i] = made[i]]_vars

\* two threads drew their ids one after the other and the Pod of the
\* second was finished first
C28_Witness ==
    /\ Len(made) = 2
    /\ made[1] > made[2]
    /\ \E t \in Threads : taken[t] > made[1]

\* ------------------------------------------------------ interaction state
\* C29: a pass on the root (update, layout, paint, lifecycle, frame)
\* leaves the hot and active flags of every Pod as they were; the sizes
\* change in a layout and in nothing else, and after a layout every Pod
\* has the size its inner widget returned.
C29_PassesKeepFlags ==
    /\ [][(Idle /\ Passed') => UNCHANGED <<hot, active, press>>]_vars
    /\ [][size' # size => last'.op = "layout"]_vars
    /\ [][last'.op # "layout" => size' = size]_vars
    /\ [](last.op = "layout" => \A p \in Built : size[p] = LayoutSize(p, WinSize))

\* the last of the passes of a frame went over a tree that was laid out
\* and in which a Pod is hot and a Pod is active
C29_Witness ==
    /\ last.op = "frame"
    /\ LaidOut
    /\ \E p \in Built : hot[p]
    /\ \E p \in Built : active[p] /\ ~hot[p]

\* --------------------------------------------------------------- startup
\* C30: the first calls on the root are the Initialized lifecycle, one
\* update and one layout, in this order and before the loop; no later call
\* is a lifecycle; and whenever the Tick and the events of a frame are
\* dispatched, every Pod has been laid out.
C30_Startup ==
    /\ [](pc = "launch" => (frame = <<>> /\ \A p \in Pods : size[p] = ZERO))
    /\ [][pc = "launch" =>
            /\ Len(frame') = 3
            /\ frame'[1].kind = "lifecycle"
            /\ frame'[2].kind = "update"
            /\ frame'[3] = Ev("layout", NoBtn, WinSize)
            /\ pc' = "top"]_vars
    /\ [][pc # "launch" => \A i \in 1 .. Len(frame') : frame'[i].kind # "lifecycle"]_vars
    /\ [][Reconciling => (LaidOut /\ frame'[1].kind = "Tick")]_vars
    /\ [](pc # "launch" => LaidOut)

\* launch has made its three calls and the loop is about to start
C30_Witness ==
    /\ pc = "top"
    /\ Len(frame) = 3
    /\ frame[1].kind = "lifecycle"
    /\ LaidOut
    /\ events = <<>>

\* ------------------------------------------------- the Context of an event
\* C31: the Context an inner widget is handed with an event carries the
\* flags its Pod had before the event's own transition: with a MouseUp
\* ctx.active is true while the Pod's active is already false, with a
\* MouseDown ctx.active is the value before the press, with a MouseEnter
\* made from a MouseMove ctx.hot is false, with a MouseExit ctx.hot is true.
C31_ContextIsSnapshot ==
    last.op = "event" =>
        \A i \in WidgetCalls :
            LET p == log[i].pod
                k == log[i].ev.kind
                c == log[i].ctx
            IN  Entered(p) =>
                    /\ k = "MouseUp" => (c.active /\ ~active[p])
                    /\ k = "MouseDown" => (c.active = last.active[p] /\ active[p])
                    /\ (k = "MouseEnter" /\ Got("pod", p, "MouseMove")) =>
                            (~c.hot /\ hot[p])
                    /\ k = "MouseExit" => (c.hot /\ ~hot[p])

\* a pressed leaf the pointer has left is handed the release: its Context
\* says active and not hot, and the Pod is no longer active
C31_Witness ==
    /\ Dispatched("MouseUp")
    /\ \E p \in Leaves : \E i \in Calls("widget", p) :
          /\ log[i].ev.kind = "MouseUp"
          /\ log[i].ctx.active /\ ~log[i].ctx.hot
          /\ ~active[p]

\* ------------------------------------------------------------ coalescing
\* every event of the queue q is a MouseMove
AllMoves(q) == \A i \in 1 .. Len(q) : q[i].kind = "MouseMove"

\* C32: the frame dispatches only the last event of its queue exactly when
\* the queue holds at least two events and all of them are MouseMove; in
\* every other case it dispatches every queued event, unmodified and in
\* queue order; the queue is empty after the dispatch.
C32_CoalesceExactly ==
    [][Reconciling =>
        LET q == Queued
            d == SubSeq(frame', 2, Len(frame') - 1)
        IN  /\ (Len(q) >= 2 /\ AllMoves(q)) => d = <<q[Len(q)]>>
            /\ ~(Len(q) >= 2 /\ AllMoves(q)) => d = q
            /\ events' = <<>>]_vars

\* two MouseMoves to different points were queued, the first while the
\* window was minimized, and the frame dispatched the second alone
C32_Witness ==
    /\ pc = "dispatched"
    /\ Len(arrivals) = 2
    /\ AllMoves(arrivals)
    /\ arrivals[1] # arrivals[2]
    /\ Handled = <<arrivals[2]>>

\* ------------------------------------------------------ minimized window
\* a notification has been flushed in the step
Flushed == Len(inbox') = Len(inbox) + 1

\* C33: the window counts as minimized from a Minimized notification or a
\* resize to zero until a Restored notification or a resize to a size that
\* is not zero; an iteration that finds it minimized after the flush goes
\* back to the top: the root is handed no Tick and no event, nothing is
\* updated, laid out, painted, submitted to the renderer or framed, the
\* cursor is not reconciled, and the tree and the queue stay as they are.
C33_MinimizedDoesNothing ==
    /\ [][Flushed =>
            LET n == inbox'[Len(inbox')].note IN
            minimized' = CASE n \in {"Minimized", "ResizedZero"} -> TRUE
                           [] n \in {"Restored", "Resized"} -> FALSE
                           [] OTHER -> minimized]_vars
    /\ [][(pc = "flushing" /\ minimized /\ ~Flushed) =>
            /\ pc' = "top"
            /\ frame' = <<>>
            /\ UNCHANGED <<hot, active, press, size, gfx, failed, events, resized,
                           minimized>>]_vars
    /\ [][(pc = "flushing" /\ pc' = "dispatched") => ~minimized]_vars
    /\ [](pc \in {"dispatched", "presented"} => ~minimized)

\* a MouseMove was queued and the window resized to zero: the iteration
\* ended with nothing dispatched and the MouseMove still queued
C33_Witness ==
    /\ pc = "top"
    /\ minimized
    /\ frame = <<>>
    /\ Len(inbox) = 2
    /\ inbox[1].note = "CursorMoved" /\ inbox[2].note = "ResizedZero"
    /\ Len(events) = 1

\* ---------------------------------------------------------------- resize
\* how many Resized events the sequence q holds
Resizes(q) == Number(q, LAMBDA e : e.kind = "Resized")

\* C34: a frame that is not minimized calls the renderer's resize handler
\* once and hands the root one Resized event, carrying the window size and
\* coming after every other event of the frame, when one or more resizes
\* to a size that is not zero have arrived since the last frame that did
\* so; otherwise it makes no such call and hands the root no Resized. A
\* minimized iteration makes no such call and keeps the resize pending.
C34_ResizeOncePerFrame ==
    /\ [][Reconciling =>
            LET d == SubSeq(frame', 2, Len(frame') - 1) IN
            IF Resizes(arrivals) >= 1
            THEN /\ resizes' = 1
                 /\ Resizes(d) = 1
                 /\ d[Len(d)] = ResizedEvent
                 /\ SubSeq(d, 1, Len(d) - 1) = events
            ELSE /\ resizes' = 0
                 /\ Resizes(d) = 0]_vars
    /\ [][~Reconciling => (resizes' = resizes \/ resizes' = 0)]_vars
    /\ [](Pending => resized = (Resizes(arrivals) >= 1))
    /\ [](resizes <= 1)

\* a resize and a MouseMove arrived in an iteration that was skipped because
\* the window was minimized (the MouseMove carries the cursor read then),
\* another resize arrived later; the frame after that handed the root the
\* MouseMove and then one Resized
C34_Witness ==
    /\ pc = "dispatched"
    /\ resizes = 1
    /\ Resizes(arrivals) = 2
    /\ arrivals[1].kind = "Resized"
    /\ Len(Handled) = 2
    /\ Handled[1].kind = "MouseMove"
    /\ Handled[1].pt # cursor
    /\ Handled[2] = ResizedEvent

\* --------------------------------------------------------------- release
\* C35: after a MouseUp has been dispatched from the root no Pod of the
\* tree is active, whatever the events before it and whatever the inner
\* handlers return.
C35_ReleaseReachesAll ==
    Dispatched("MouseUp") => \A p \in Built : ~active[p]

\* ------------------------------------------------------ hot and ancestry
\* C36: a Pod that is hot has every Pod that encloses it hot as well, in
\* every reachable state and whatever the inner handlers return.
C36_HotClosedUnderAncestry ==
    \A p \in Built : hot[p] => \A a \in Ancestors(p) \cap Built : hot[a]

\* ------------------------------------------------------- the hot child
\* C37: on a MouseMove to a ZStack the child the scan selects, the topmost
\* one whose contains holds at the point, ends the dispatch hot; and when
\* the point is inside the rectangle and the hit region of some child, at
\* least one child of the ZStack is hot afterwards (the tree being laid
\* out).
C37_SelectedChildHot ==
    \A z \in ZStackPods : \A i \in MoveCalls(z) :
        LET q == log[i].ev.pt IN
        LaidOut =>
        /\ Containing(z, q) # {} => hot[Widgets(z)[Max(Containing(z, q))]]
        /\ (\E c \in Children(z) : HitRegion(c, q)) => HotChildren(z) # {}

\* ------------------------------------------- the point and the Context
\* C38: every MouseMove the frame hands the root carries the point that is
\* the cursor of the Context it is handed with, the cursor read at the top
\* of the iteration.
C38_MovePointIsContextCursor ==
    pc = "dispatched" =>
        \A i \in 1 .. Len(Handled) :
            Handled[i].kind = "MouseMove" => Handled[i].pt = cursor

\* ---------------------------------------------------------- queued input
\* the frame's queue is one that the coalescing empties but for its last
\* event
Collapsing == Len(Queued) >= 2 /\ AllMoves(Queued)

\* C39: the queue only grows until a frame dispatches it, iterations
\* skipped because the window is minimized included; the frame that
\* dispatches hands the root every event of the queue once and in queue
\* order, from whichever iteration it stems, unless the queue is collapsed
\* to its last MouseMove, and leaves the queue empty; and if iterations
\* keep ending with the window not minimized, every queued event is
\* dispatched in the end.
C39_NoQueuedInputLost ==
    /\ [][~Reconciling =>
            /\ Len(events') >= Len(events)
            /\ SubSeq(events', 1, Len(events)) = events]_vars
    /\ [][Reconciling =>
            LET d == SubSeq(frame', 2, Len(frame') - 1) IN
            /\ events' = <<>>
            /\ IF Collapsing
               THEN d = <<events[Len(events)]>>
               ELSE /\ Len(d) >= Len(events)
                    /\ SubSeq(d, 1, Len(events)) = events
                    /\ \A i \in Len(events) + 1 .. Len(d) : d[i] = ResizedEvent]_vars
    /\ ([]<>(pc = "top" /\ ~minimized)) => ((events # <<>>) ~> (pc = "dispatched"))

\* a MouseMove queued in an iteration that was skipped and a key press of
\* the current iteration have been dispatched, in this order
C39_Witness ==
    /\ pc = "dispatched"
    /\ Len(Handled) = 2
    /\ Handled[1].kind = "MouseMove"
    /\ Handled[1].pt # cursor
    /\ Handled[2].kind = "KeyDown"

\* ------------------------------------------------------- cursor objects
\* the cursor the root declares, the Pods' hot flags being h
Declared(h) == PodCursor(RootPod, h)

\* C40: every registered cursor is in exactly one place, the table or the
\* window, and no other cursor is in either; the name recorded as displayed
\* is n exactly when the cursor n is the one the window holds and the table
\* does not hold it; and a frame in which the root declares a name that is
\* not registered leaves the window's cursor and the recorded name alone.
C40_CursorsConserved ==
    /\ [](\A n \in CursorNames :
            /\ gfx.cursors[n] \in {n, NoCursor}
            /\ n \in gfx.names => ((gfx.cursors[n] = n) # (gfx.window = n))
            /\ n \notin gfx.names => (gfx.cursors[n] = NoCursor /\ gfx.window # n)
            /\ (gfx.cursor = n) <=> (gfx.window = n /\ gfx.cursors[n] = NoCursor))
    /\ [](gfx.window \in gfx.names \cup {NoCursor})
    /\ [](gfx.cursor \in gfx.names \cup {NoCursor})
    /\ [][(Reconciling /\ Declared(hot') \notin gfx.names \cup {NoCursor}) =>
            (gfx' = gfx /\ frame'[Len(frame')] = Cursor)]_vars
    /\ [][gfx'.names = gfx.names]_vars

\* the root declares a cursor that is not registered while a registered one
\* is installed: the frame has made no call on the window
C40_Witness ==
    /\ pc = "dispatched"
    /\ gfx.names = {"cross"}
    /\ Declared(hot) = "hand"
    /\ gfx.cursor = "cross" /\ gfx.window = "cross"
    /\ frame[Len(frame)] = Cursor

====
